---- MODULE Spec2Model ----
(***************************************************************************)
(* Model of pubmed_parser/pubmed_web_parser.py: the record extractor       *)
(* (parse_xml_tree), the identifier resolver (convert_document_id), the    *)
(* cited-by crawler (parse_citation_web) and the outgoing-citation query   *)
(* (parse_outgoing_citation_web).                                          *)
(*                                                                         *)
(* A Python str is a sequence of one-character strings, so that prefixing, *)
(* re.sub, str.split and int() are computed character by character.        *)
(* A call's outcome is a record whose field exc names the exception that   *)
(* escaped ("" when the call returned).                                    *)
(***************************************************************************)
EXTENDS Naturals, Sequences, FiniteSets

VARIABLES xml, conv, resolved, exchange, cw, tree, og

vars == <<xml, conv, resolved, exchange, cw, tree, og>>

(***************************************************************************)
(* Bounds of the model.                                                    *)
(***************************************************************************)
\* listing rows on one cited-by page
MaxRows == 2
\* the total counts offered reach MaxPages pages
MaxPages == 3
\* author nodes in one article tree
MaxAuthors == 2
\* linked ids in one link-graph response
MaxLinks == 2

(***************************************************************************)
(* Strings.                                                                *)
(***************************************************************************)
Digits == <<"0", "1", "2", "3", "4", "5", "6", "7", "8", "9">>

S_PMC == <<"P", "M", "C">>

\* the pattern of re.sub at line 121
CitedByPhrase ==
    <<"I", "s", " ", "C", "i", "t", "e", "d", " ", "b", "y", " ", "t", "h",
      "e", " ", "F", "o", "l", "l", "o", "w", "i", "n", "g", " ">>

\* "/pmc/articles/", the path of a listing row's anchor
ArticlesPath ==
    <<"/", "p", "m", "c", "/", "a", "r", "t", "i", "c", "l", "e", "s", "/">>

\* str(n) for a natural number n
RECURSIVE DecStr(_)
DecStr(n) ==
    IF n < 10 THEN <<Digits[n + 1]>>
    ELSE DecStr(n \div 10) \o <<Digits[(n % 10) + 1]>>

\* re.sub(pat, '', s) for a literal pattern: leftmost non-overlapping matches
RECURSIVE ReSub(_, _)
ReSub(pat, s) ==
    IF Len(s) < Len(pat) THEN s
    ELSE IF SubSeq(s, 1, Len(pat)) = pat
         THEN ReSub(pat, SubSeq(s, Len(pat) + 1, Len(s)))
         ELSE <<Head(s)>> \o ReSub(pat, Tail(s))

\* s.split(sep) for a one-character separator: empty pieces are kept
RECURSIVE Split(_, _)
Split(s, sep) ==
    IF \A i \in 1..Len(s) : s[i] # sep THEN <<s>>
    ELSE LET i == CHOOSE k \in 1..Len(s) :
                      s[k] = sep /\ \A j \in 1..(k - 1) : s[j] # sep
         IN  <<SubSeq(s, 1, i - 1)>> \o Split(SubSeq(s, i + 1, Len(s)), sep)

\* sep.join(parts)
RECURSIVE Join(_, _)
Join(sep, parts) ==
    IF parts = <<>> THEN <<>>
    ELSE IF Len(parts) = 1 THEN parts[1]
    ELSE parts[1] \o sep \o Join(sep, Tail(parts))

\* s.strip() for the blank character
RECURSIVE Strip(_)
Strip(s) ==
    IF s = <<>> THEN s
    ELSE IF Head(s) = " " THEN Strip(Tail(s))
    ELSE IF s[Len(s)] = " " THEN Strip(SubSeq(s, 1, Len(s) - 1))
    ELSE s

\* int(tok) succeeds on a non-empty run of decimal digits (the tokens offered
\* hold no sign, underscore or blank, which int() would also read)
IsInt(tok) ==
    /\ tok # <<>>
    /\ \A i \in 1..Len(tok) : \E d \in 1..10 : Digits[d] = tok[i]

RECURSIVE IntOf(_)
IntOf(tok) ==
    IF tok = <<>> THEN 0
    ELSE 10 * IntOf(SubSeq(tok, 1, Len(tok) - 1))
         + ((CHOOSE d \in 1..10 : Digits[d] = tok[Len(tok)]) - 1)

\* the sequences over S of length at most n
SeqsUpTo(S, n) == UNION {[1..k -> S] : k \in 0..n}

\* the elements of s that satisfy keep, in order
RECURSIVE SelectIdx(_, _, _)
SelectIdx(s, keep, i) ==
    IF i > Len(s) THEN <<>>
    ELSE (IF i \in keep THEN <<s[i]>> ELSE <<>>) \o SelectIdx(s, keep, i + 1)

(***************************************************************************)
(* Identifier resolver: convert_document_id.                               *)
(***************************************************************************)
DocIds == {<<"1">>, <<"2">>, S_PMC \o <<"1">>}

IdTypes == {"PMC", "PMID", "DOI", "OTHER", "ISBN"}

\* the attributes of the <record> element of an id-conversion response; the
\* ids the service hands out are not empty
Attrs == {"status", "pmcid", "pmid", "doi"}

AttrValues(a) ==
    CASE a = "status" -> {<<"e", "r", "r", "o", "r">>}
      [] a = "pmcid"  -> {S_PMC \o <<"1">>, <<"1">>}
      [] a = "pmid"   -> {<<"7">>}
      [] a = "doi"    -> {<<"1", "0", ".", "1", "/", "x">>}

Records ==
    UNION {{r \in [D -> UNION {AttrValues(a) : a \in D}] :
                \A a \in D : r[a] \in AttrValues(a)} : D \in SUBSET Attrs}

\* doc_id as sent in the request and, for id_type 'PMC', returned as pmc
PrefixedId_NoPrefix(doc_id, id_type) == doc_id

PrefixedId(doc_id, id_type) ==
    IF id_type = "PMC" THEN S_PMC \o doc_id ELSE doc_id

SupportedIdType(id_type) == id_type \in {"PMC", "PMID", "DOI", "OTHER"}

\* the check of line 153, the slip being to test the status flag alone
CannotConvert_StatusOnly(record) == "status" \in DOMAIN record

CannotConvert(record) ==
    "status" \in DOMAIN record \/ "pmcid" \notin DOMAIN record

Attr(record, a) == IF a \in DOMAIN record THEN record[a] ELSE <<>>

NoRecord == [x \in {} |-> <<>>]

\* an id-conversion response: its <record> element's attributes, or no such
\* element (found = FALSE)
Responses ==
    {[found |-> TRUE, attrib |-> r] : r \in Records}
        \cup {[found |-> FALSE, attrib |-> NoRecord]}

Raised(kind) == [exc |-> kind, pmc |-> <<>>, pmid |-> <<>>, doi |-> <<>>]

\* convert_document_id(doc_id, id_type) when the service answers resp
convert_document_id(doc_id, id_type, resp) ==
    IF ~SupportedIdType(id_type) THEN Raised("ValueError: id_type")
    ELSE IF ~resp.found THEN Raised("AttributeError")
    ELSE IF CannotConvert(resp.attrib)
         THEN Raised("ValueError: cannot convert")
    ELSE [exc  |-> "",
          pmc  |-> IF id_type = "PMC" THEN PrefixedId(doc_id, id_type)
                   ELSE Attr(resp.attrib, "pmcid"),
          pmid |-> Attr(resp.attrib, "pmid"),
          doi  |-> Attr(resp.attrib, "doi")]

NoResponse == [found |-> FALSE, attrib |-> NoRecord]

NoCall == [doc_id |-> <<>>, id_type |-> "", asked |-> FALSE,
           resp |-> NoResponse, out |-> Raised("no call")]

NoExchange == [ids |-> <<>>, resp |-> NoResponse, asked |-> FALSE]

(***************************************************************************)
(* Citation page extractor: extract_citations, extract_pmc.                *)
(***************************************************************************)
PageSize == 30

\* the total counts a listing heading may announce
Counts == {PageSize * k + d : k \in 0..(MaxPages - 1), d \in {0, 5}}

ArticlesWord == <<" ", "A", "r", "t", "i", "c", "l", "e", "s">>

\* the text nodes of //form/h2[@class="head"]: none when the heading is absent
Headings ==
    {<<>>}
        \cup {<<CitedByPhrase \o DecStr(n) \o ArticlesWord>> : n \in Counts}
        \cup {<<<<"C", "i", "t", "e", "d", " ", "b", "y">>>>,
              <<CitedByPhrase \o <<"6", "5", ",", " ", "o", "r">>>>}

\* the hrefs of the listing rows' anchors
Hrefs ==
    {ArticlesPath \o S_PMC \o <<"1", "/">>,
     ArticlesPath \o S_PMC \o <<"2">>}

Listings == SeqsUpTo(Hrefs, MaxRows)

Trees == [head : Headings, rows : Listings]

NoTree == [head |-> <<>>, rows |-> <<>>]

\* extract_citations(tree): the [0] of line 120 is outside the try
extract_citations(t) ==
    IF t.head = <<>> THEN [exc |-> "IndexError", n |-> 0]
    ELSE LET text == ReSub(CitedByPhrase, t.head[1])
             tok  == Split(text, " ")[1]
         IN  [exc |-> "", n |-> IF IsInt(tok) THEN IntOf(tok) ELSE 0]

\* the non-empty pieces of citation.split('/')
Segments(citation) ==
    LET parts == Split(citation, "/")
    IN  SelectIdx(parts, {i \in 1..Len(parts) : parts[i] # <<>>}, 1)

\* extract_pmc(citation); an href with no non-empty piece raises IndexError
extract_pmc(citation) ==
    LET segs == Segments(citation)
    IN  IF segs = <<>> THEN [exc |-> "IndexError", pmc |-> <<>>]
        ELSE [exc |-> "", pmc |-> ReSub(S_PMC, segs[Len(segs)])]

\* rows[1::] keeps every listing row but the first
RowsAfterFirst_All(rows) == rows

RowsAfterFirst(rows) == IF rows = <<>> THEN <<>> ELSE Tail(rows)

\* list(map(extract_pmc, citations)) for the rows of one page
PagePmcs(rows) ==
    LET citations == RowsAfterFirst(rows)
    IN  [i \in 1..Len(citations) |-> extract_pmc(citations[i]).pmc]

PageRaises(rows) ==
    LET citations == RowsAfterFirst(rows)
    IN  \E i \in 1..Len(citations) : extract_pmc(citations[i]).exc # ""

(***************************************************************************)
(* Citation graph crawler: parse_citation_web.                             *)
(***************************************************************************)
\* n_pages = int(n_citations/30) + 1; rounding up instead, and leaving out the
\* + 1, are the two nearby ways to count pages
NPages_Ceil(n) == (n + PageSize - 1) \div PageSize

NPages_Floor(n) == n \div PageSize

NPages(n) == (n \div PageSize) + 1

\* pmc_cited_all after line 204: p is dropped when it is the very object pmc.
\* same is the set of positions holding that object; two equal strings may or
\* may not be one object, and two different strings never are.
SelfFilter(all, same) ==
    SelectIdx(all, {i \in 1..Len(all) : i \notin same}, 1)

MayBeSame(all, pmc) == {i \in 1..Len(all) : all[i] = pmc}

NoDict == [n_citations |-> 0, pmid |-> <<>>, pmc |-> <<>>, doi |-> <<>>,
           pmc_cited |-> <<>>]

CwIdle == [pc |-> "idle", exc |-> "", doc_id_dict |-> Raised("no call"),
           n_citations |-> 0, n_pages |-> 0, i |-> 0,
           pmc_cited_all |-> <<>>, fetched |-> <<>>, dict_out |-> NoDict]

(***************************************************************************)
(* Record extractor: parse_xml_tree and its helpers.                       *)
(***************************************************************************)
Fields == {"title", "abstract", "journal", "year", "affiliation", "authors"}

\* a <forename> or <lastname> child of an author node is absent ("missing"),
\* present without text ("empty", whose .text is None), or holds text
Named(t) == [kind |-> "text", text |-> t]

AuthorNodes ==
    {[forename |-> Named(<<"A", "l">>), lastname |-> Named(<<"D", "o">>)],
     [forename |-> Named(<<"B", "o">>), lastname |-> Named(<<"E", "k">>)],
     [forename |-> [kind |-> "missing", text |-> <<>>],
      lastname |-> Named(<<"F", "u">>)],
     [forename |-> Named(<<"C", "y">>),
      lastname |-> [kind |-> "missing", text |-> <<>>]],
     [forename |-> [kind |-> "empty", text |-> <<>>],
      lastname |-> Named(<<"G", "e">>)]}

\* what each xpath query of parse_xml_tree finds in an article tree
Parts(f) ==
    CASE f = "title"       -> {<<>>, <<<<"T", "i">>>>,
                               <<<<"T", "i">>, <<"t", "l">>>>}
      [] f = "abstract"    -> {<<>>, <<<<"A", "b", "s">>>>}
      [] f = "journal"     -> {<<>>, <<<<" ", "J", " ", "M">>, <<"e", "d", " ">>>>}
      [] f = "year"        -> {<<>>, <<<<"2", "0", "1", "5">>>>}
      [] f = "affiliation" -> {<<>>, <<<<"U", "1">>>>,
                               <<<<"U", "1">>, <<"U", "2">>>>}
      [] f = "authors"     -> SeqsUpTo(AuthorNodes, MaxAuthors)

\* the argument of parse_xml_tree: an article tree, or an object that is no
\* tree (valid = FALSE), on which every query raises
XmlTrees ==
    [valid : {TRUE}, title : Parts("title"), abstract : Parts("abstract"),
     journal : Parts("journal"), year : Parts("year"),
     affiliation : Parts("affiliation"), authors : Parts("authors")]
        \cup {[valid |-> FALSE, title |-> <<>>, abstract |-> <<>>,
               journal |-> <<>>, year |-> <<>>, affiliation |-> <<>>,
               authors |-> <<>>]}

Value(v) == [exc |-> "", val |-> v]

Throw(kind) == [exc |-> kind, val |-> <<>>]

\* the first author whose fullname cannot be built, 0 when there is none
FirstBadAuthor(authors) ==
    LET bad == {i \in 1..Len(authors) :
                    \/ authors[i].forename.kind # "text"
                    \/ authors[i].lastname.kind # "text"}
    IN  IF bad = {} THEN 0 ELSE CHOOSE i \in bad : \A j \in bad : i <= j

\* firstname + ' ' + lastname
FullName(a) == a.forename.text \o <<" ">> \o a.lastname.text

\* get_author_string(tree): nothing in the loop is guarded. A missing child
\* makes .text raise AttributeError at line 34 or 35; when both children are
\* there, a text of None makes the + of line 36 raise TypeError
get_author_string(t) ==
    LET authors == t.authors
        b       == FirstBadAuthor(authors)
    IN  IF ~t.valid THEN Throw("AttributeError")
        ELSE IF b = 0
             THEN Value(Join(<<";", " ">>,
                             [i \in 1..Len(authors) |-> FullName(authors[i])]))
        ELSE IF \/ authors[b].forename.kind = "missing"
                \/ authors[b].lastname.kind = "missing"
             THEN Throw("AttributeError")
        ELSE Throw("TypeError")

\* get_year_string(tree)
get_year_string(t) ==
    IF ~t.valid THEN Throw("AttributeError") ELSE Value(Join(<<>>, t.year))

\* get_abstract_string(tree): the module neither defines nor imports
\* stringify_children, so the call raises NameError whatever the tree holds
get_abstract_string(t) == Throw("NameError")

\* get_affiliation_string(tree)
get_affiliation_string(t) ==
    IF ~t.valid THEN Throw("AttributeError")
    ELSE Value(Join(<<";", " ">>, t.affiliation))

\* the expression each try block of parse_xml_tree evaluates
Extract(f, t) ==
    CASE f = "title" ->
            IF ~t.valid THEN Throw("AttributeError")
            ELSE Value(Join(<<" ">>, t.title))
      [] f = "abstract" -> get_abstract_string(t)
      [] f = "journal" ->
            IF ~t.valid THEN Throw("AttributeError")
            ELSE Value(Strip(Join(<<" ">>, t.journal)))
      [] f = "year" -> get_year_string(t)
      [] f = "affiliation" -> get_affiliation_string(t)
      [] f = "authors" -> get_author_string(t)

\* try: ... except: ''
OrEmpty(r) == IF r.exc = "" THEN r.val ELSE <<>>

\* one try block around the six extractions instead of one each
parse_xml_tree_OneTry(t) ==
    [f \in Fields |->
        IF \E g \in Fields : Extract(g, t).exc # "" THEN <<>>
        ELSE Extract(f, t).val]

\* parse_xml_tree(tree)
parse_xml_tree(t) == [f \in Fields |-> OrEmpty(Extract(f, t))]

NoXmlTree == [valid |-> FALSE, title |-> <<>>, abstract |-> <<>>,
              journal |-> <<>>, year |-> <<>>, affiliation |-> <<>>,
              authors |-> <<>>]

\* the pmid arguments of parse_xml_web, as str(pmid)
Pmids == {<<"7">>, <<"8">>}

\* etree.tostring(tree) and etree.fromstring(xml): the markup of a tree, and
\* the tree that markup parses to, in which the queries find the same nodes
tostring(t) == [markup |-> t]

fromstring(x) == x.markup

\* load_xml(pmid, sleep) when efetch answers with the article `page`; the
\* sleep changes nothing the function returns
load_xml(pmid, page) == [pmid |-> pmid, xml |-> tostring(page)]

\* parse_xml_web(pmid, sleep, save_xml): the record of parse_xml_tree with
\* the key pmid added, and the key xml when save_xml is set
parse_xml_web(pmid, save_xml, page) ==
    LET dict_xml == load_xml(pmid, page)
        dict_out == parse_xml_tree(fromstring(dict_xml.xml))
        keys     == Fields \cup {"pmid"}
                        \cup (IF save_xml THEN {"xml"} ELSE {})
    IN  [k \in keys |->
            IF k \in Fields THEN dict_out[k]
            ELSE IF k = "pmid" THEN dict_xml.pmid
            ELSE dict_xml.xml]

XmlIdle == [called |-> FALSE, fn |-> "", tree |-> NoXmlTree,
            pmid |-> <<>>, slept |-> FALSE,
            dict_out |-> [f \in Fields |-> <<>>]]

(***************************************************************************)
(* Outgoing citations: parse_outgoing_citation_web.                        *)
(***************************************************************************)
\* id_type as passed: its characters, and whether it is the interned literal
\* object, which is what `id_type is 'PMC'` compares
OutIdTypes == [val : {"PMC", "PMID", "DOI"}, interned : BOOLEAN]

Is(id_type, literal) == id_type.val = literal /\ id_type.interned

LinkIds == {<<"7">>, <<"8">>}

\* the /eLinkResult/LinkSet/LinkSetDb/Link/Id texts of a link-graph response
LinkLists == SeqsUpTo(LinkIds, MaxLinks)

\* `if not n_citations`, and the slip of never taking the branch
NoCitations_Never(n_citations) == FALSE

NoCitations(n_citations) == n_citations = 0

NoOutDict == [n_citations |-> 0, doc_id |-> <<>>, id_type |-> "",
              pmid_cited |-> <<>>]

NoRequest == [db |-> "", linkname |-> "", id |-> <<>>]

\* the elink request of line 231
OutgoingRequest(doc_id, id_type) ==
    IF Is(id_type, "PMC")
    THEN [db |-> "pmc", linkname |-> "pmc_refs_pubmed", id |-> doc_id]
    ELSE IF Is(id_type, "PMID")
    THEN [db |-> "pubmed", linkname |-> "pubmed_pubmed_refs", id |-> doc_id]
    ELSE NoRequest

\* parse_outgoing_citation_web(doc_id, id_type) when the response lists links
parse_outgoing_citation_web(doc_id, id_type, links) ==
    LET pmid_cited_all == links
        n_citations    == Len(pmid_cited_all)
    IN  IF ~Is(id_type, "PMC") /\ ~Is(id_type, "PMID")
        THEN [exc |-> "ValueError", none |-> FALSE, dict_out |-> NoOutDict]
        ELSE IF NoCitations(n_citations)
        THEN [exc |-> "", none |-> TRUE, dict_out |-> NoOutDict]
        ELSE [exc |-> "", none |-> FALSE,
              dict_out |-> [n_citations |-> n_citations,
                            doc_id |-> doc_id,
                            id_type |-> id_type.val,
                            pmid_cited |-> pmid_cited_all]]

OgIdle == [called |-> FALSE, request |-> NoRequest, links |-> <<>>,
           out |-> [exc |-> "", none |-> FALSE, dict_out |-> NoOutDict]]

(***************************************************************************)
(* The calls. Nothing outlives a call, so each call starts from the        *)
(* initial state; convert_document_id may be called again after itself.    *)
(***************************************************************************)
Others == xml = XmlIdle /\ cw = CwIdle /\ og = OgIdle

Fresh == Others /\ conv = NoCall

IdleConv == conv' = NoCall /\ resolved' = NoCall /\ exchange' = NoExchange

\* One call of convert_document_id. The id-conversion service is a function of
\* the request: a request repeated right after itself gets the same response.
\* resolved remembers the preceding call when it resolved an id in the 'PMC'
\* namespace.
ConvertDocumentId ==
    /\ Others
    /\ \E doc_id \in DocIds, id_type \in IdTypes, r \in Responses :
        LET ids   == PrefixedId(doc_id, id_type)
            asked == SupportedIdType(id_type)
            resp  == IF exchange.asked /\ exchange.ids = ids
                     THEN exchange.resp ELSE r
        IN  /\ conv' = [doc_id |-> doc_id, id_type |-> id_type,
                        asked |-> asked,
                        resp |-> IF asked THEN resp ELSE NoResponse,
                        out |-> convert_document_id(doc_id, id_type, resp)]
            /\ exchange' = IF asked
                           THEN [ids |-> ids, resp |-> resp, asked |-> TRUE]
                           ELSE exchange
            /\ resolved' = IF conv.id_type = "PMC" /\ conv.out.exc = ""
                           THEN conv ELSE NoCall
            /\ xml' = XmlIdle /\ og' = OgIdle
            /\ cw' = CwIdle /\ tree' = NoTree

\* parse_citation_web, lines 184-186: resolve the document
CitationResolve ==
    /\ Fresh
    /\ \E doc_id \in DocIds, id_type \in IdTypes, r \in Responses :
        LET d == convert_document_id(doc_id, id_type, r)
        IN  /\ cw' = [CwIdle EXCEPT
                        !.pc = IF d.exc = "" THEN "page1" ELSE "raised",
                        !.exc = d.exc,
                        !.doc_id_dict = d]
            /\ tree' = NoTree
            /\ IdleConv
            /\ xml' = XmlIdle /\ og' = OgIdle

\* lines 187-195: fetch page 1, read the total count and the first rows
CitationPage1 ==
    /\ cw.pc = "page1"
    /\ \E t \in Trees :
        LET c == extract_citations(t)
        IN  /\ tree' = t
            /\ cw' = IF c.exc # "" \/ PageRaises(t.rows)
                     THEN [cw EXCEPT !.pc = "raised", !.exc = "IndexError",
                                     !.fetched = <<1>>]
                     ELSE [cw EXCEPT
                             !.pc = IF NPages(c.n) >= 2 THEN "pages"
                                    ELSE "filter",
                             !.n_citations = c.n,
                             !.n_pages = NPages(c.n),
                             !.i = IF NPages(c.n) >= 2 THEN 2 ELSE 0,
                             !.pmc_cited_all = PagePmcs(t.rows),
                             !.fetched = <<1>>]
    /\ UNCHANGED <<xml, conv, resolved, exchange, og>>

\* lines 197-203: one turn of the loop over pages 2..n_pages
CitationNextPage ==
    /\ cw.pc = "pages"
    /\ \E rows \in Listings :
        cw' = IF PageRaises(rows)
              THEN [cw EXCEPT !.pc = "raised", !.exc = "IndexError",
                              !.fetched = Append(@, cw.i)]
              ELSE [cw EXCEPT
                      !.pc = IF cw.i + 1 > cw.n_pages THEN "filter"
                             ELSE "pages",
                      !.i = @ + 1,
                      !.pmc_cited_all = @ \o PagePmcs(rows),
                      !.fetched = Append(@, cw.i)]
    /\ UNCHANGED <<xml, conv, resolved, exchange, tree, og>>

\* lines 204-210: drop the document itself and build the result
CitationReturn ==
    /\ cw.pc = "filter"
    /\ \E same \in SUBSET MayBeSame(cw.pmc_cited_all, cw.doc_id_dict.pmc) :
        cw' = [cw EXCEPT
                 !.pc = "returned",
                 !.dict_out =
                     [n_citations |-> cw.n_citations,
                      pmid |-> cw.doc_id_dict.pmid,
                      pmc |-> ReSub(S_PMC, cw.doc_id_dict.pmc),
                      doi |-> cw.doc_id_dict.doi,
                      pmc_cited |-> SelfFilter(cw.pmc_cited_all, same)]]
    /\ UNCHANGED <<xml, conv, resolved, exchange, tree, og>>

\* parse_xml_tree(tree)
ParseXmlTree ==
    /\ Fresh
    /\ \E t \in XmlTrees :
        xml' = [called |-> TRUE, fn |-> "parse_xml_tree", tree |-> t,
                pmid |-> <<>>, slept |-> FALSE,
                dict_out |-> parse_xml_tree(t)]
    /\ IdleConv
    /\ cw' = CwIdle /\ tree' = NoTree /\ og' = OgIdle

\* parse_xml_web(pmid, sleep, save_xml): efetch answers with an article, which
\* html.fromstring turns into a tree
ParseXmlWeb ==
    /\ Fresh
    /\ \E pmid \in Pmids, sleep \in BOOLEAN, save_xml \in BOOLEAN,
          page \in {t \in XmlTrees : t.valid} :
        xml' = [called |-> TRUE, fn |-> "parse_xml_web", tree |-> page,
                pmid |-> pmid, slept |-> sleep,
                dict_out |-> parse_xml_web(pmid, save_xml, page)]
    /\ IdleConv
    /\ cw' = CwIdle /\ tree' = NoTree /\ og' = OgIdle

\* parse_outgoing_citation_web(doc_id, id_type)
OutgoingCitation ==
    /\ Fresh
    /\ \E doc_id \in DocIds, id_type \in OutIdTypes, links \in LinkLists :
        og' = [called |-> TRUE,
               request |-> OutgoingRequest(doc_id, id_type),
               links |-> IF OutgoingRequest(doc_id, id_type) = NoRequest
                         THEN <<>> ELSE links,
               out |-> parse_outgoing_citation_web(doc_id, id_type, links)]
    /\ IdleConv
    /\ cw' = CwIdle /\ tree' = NoTree /\ xml' = XmlIdle

Init ==
    /\ xml = XmlIdle
    /\ conv = NoCall
    /\ resolved = NoCall
    /\ exchange = NoExchange
    /\ cw = CwIdle
    /\ tree = NoTree
    /\ og = OgIdle

Next ==
    \/ ConvertDocumentId
    \/ CitationResolve
    \/ CitationPage1
    \/ CitationNextPage
    \/ CitationReturn
    \/ ParseXmlTree
    \/ ParseXmlWeb
    \/ OutgoingCitation

Spec == Init /\ [][Next]_vars
(***************************************************************************)
(* Properties.                                                             *)
(***************************************************************************)
Returned == cw.pc = "returned"

\* the count read from page 1 has been turned into a page count
Counted == cw.pc \in {"pages", "filter", "returned"}

CeilPages(n) == (n + PageSize - 1) \div PageSize

\* C1: for every total count n read from page 1, parse_citation_web computes
\* n_pages = floor(n / 30) + 1 and fetches the pages 1, 2, ..., n_pages in
\* increasing order, each exactly once: the log of fetches is always
\* 1, 2, ..., k, every fetch appends the next page number, and the loop ends
\* with k = n_pages.
C1_FetchesPagesInOrder ==
    /\ [](/\ cw.fetched = [k \in 1..Len(cw.fetched) |-> k]
          /\ Counted =>
                /\ cw.n_citations = extract_citations(tree).n
                /\ cw.n_pages = (cw.n_citations \div 30) + 1
                /\ Len(cw.fetched) <= cw.n_pages
          /\ cw.pc \in {"filter", "returned"} =>
                cw.fetched = [k \in 1..cw.n_pages |-> k])
    /\ [][(cw.pc \in {"page1", "pages"} /\ cw' # cw) =>
            cw'.fetched = Append(cw.fetched, Len(cw.fetched) + 1)]_vars

C1_Witness ==
    Returned /\ cw.n_citations = 65 /\ cw.fetched = <<1, 2, 3>>

\* C2: in every result of parse_citation_web the queried document's own
\* alternate id (the pmc of the result) is not among pmc_cited.
C2_SelfNeverCited ==
    Returned =>
        \A i \in 1..Len(cw.dict_out.pmc_cited) :
            cw.dict_out.pmc_cited[i] # cw.dict_out.pmc

\* the ids of the rows of page 1 after its first row
Page1Ids ==
    LET citations == IF tree.rows = <<>> THEN <<>> ELSE Tail(tree.rows)
    IN  [i \in 1..Len(citations) |-> extract_pmc(citations[i]).pmc]

\* s without the elements equal to x
Without(s, x) == SelectIdx(s, {i \in 1..Len(s) : s[i] # x}, 1)

\* C7 as stated: with a total count of 0 read from page 1 the crawl fetches
\* exactly one page and returns an empty citer list, whatever rows page 1 has.
C7_ZeroCountEmptyList ==
    (Returned /\ cw.n_citations = 0) =>
        cw.fetched = <<1>> /\ cw.dict_out.pmc_cited = <<>>

\* C7 amended: with a total count of 0 read from page 1 the crawl fetches
\* exactly one page and returns the ids of the rows of page 1 after its first
\* row, in order, less at most ids equal to the resolved pmc; the list is
\* empty when page 1 has at most one row.
C7_ZeroCountOnePage ==
    (Returned /\ cw.n_citations = 0) =>
        /\ cw.fetched = <<1>>
        /\ Len(tree.rows) <= 1 => cw.dict_out.pmc_cited = <<>>
        /\ Len(cw.dict_out.pmc_cited) <= Len(Page1Ids)
        /\ Without(cw.dict_out.pmc_cited, cw.doc_id_dict.pmc)
              = Without(Page1Ids, cw.doc_id_dict.pmc)

C7_Witness ==
    /\ Returned
    /\ cw.n_citations = 0
    /\ tree.head = <<<<"C", "i", "t", "e", "d", " ", "b", "y">>>>
    /\ Len(tree.rows) = 2
    /\ cw.dict_out.pmc_cited = <<<<"2">>>>

\* C9 as stated: the number of pages fetched for a total count n is
\* ceil(n / 30), for every n >= 0.
C9_PagesAreCeil ==
    Returned => Len(cw.fetched) = CeilPages(cw.n_citations)

\* C9 amended: the number of pages fetched is floor(n / 30) + 1, which is
\* ceil(n / 30) when n is not a multiple of 30 and one more than ceil(n / 30)
\* when n is 0 or a multiple of 30.
C9_PagesAreCeilOrOneMore ==
    Returned =>
        Len(cw.fetched) = IF cw.n_citations % 30 = 0
                          THEN CeilPages(cw.n_citations) + 1
                          ELSE CeilPages(cw.n_citations)

C9_Witness ==
    Returned /\ cw.n_citations = 30 /\ Len(cw.fetched) = 2

\* the count the heading announces: its leading token when that is a number
AnnouncedCount(head) ==
    IF head = <<>> THEN 0
    ELSE LET tok == Split(ReSub(CitedByPhrase, head[1]), " ")[1]
         IN  IF IsInt(tok) THEN IntOf(tok) ELSE 0

\* C10: reading the total count from page 1 never fails: when the heading is
\* absent or its leading token is not a number the count is 0 and the crawl
\* goes on, and when the token is a number the count is that number.
C10_CountNeverFails ==
    cw.fetched # <<>> =>
        /\ ~(cw.pc = "raised" /\ cw.fetched = <<1>>)
        /\ Counted => cw.n_citations = AnnouncedCount(tree.head)

\* the id with its leading 'PMC' taken off
Bare(pmc) == SubSeq(pmc, Len(S_PMC) + 1, Len(pmc))

\* C5 as stated: when convert_document_id(x, 'PMC') returned T, the call
\* convert_document_id(T.pmc, 'PMC') that follows returns T again.
C5_RoundTrip ==
    (resolved.asked /\ conv.id_type = "PMC" /\ conv.doc_id = resolved.out.pmc)
        => conv.out = resolved.out

\* C5 amended: when convert_document_id(x, 'PMC') returned T, the call
\* convert_document_id(T.pmc, 'PMC') that follows asks the service for
\* 'PMC' + T.pmc and never returns T: it raises, or it returns a triple
\* whose pmc is T.pmc with the prefix put on once more (so that taking one
\* leading 'PMC' off gives T.pmc back) and whose pmid and doi are those of
\* the record the service holds for the doubly prefixed id.
C5_RoundTripDoublesPrefix ==
    (resolved.asked /\ conv.id_type = "PMC" /\ conv.doc_id = resolved.out.pmc)
        => /\ conv.out # resolved.out
           /\ exchange.ids = S_PMC \o resolved.out.pmc
           /\ conv.out.exc = "" =>
                 /\ conv.out.pmc = S_PMC \o resolved.out.pmc
                 /\ Bare(conv.out.pmc) = resolved.out.pmc
                 /\ conv.out.pmid = Attr(conv.resp.attrib, "pmid")
                 /\ conv.out.doi = Attr(conv.resp.attrib, "doi")

C5_Witness ==
    /\ resolved.asked
    /\ resolved.doc_id = <<"1">>
    /\ resolved.out.pmc = S_PMC \o <<"1">>
    /\ conv.id_type = "PMC"
    /\ conv.doc_id = resolved.out.pmc
    /\ conv.out.exc = ""
    /\ conv.out.pmc = S_PMC \o S_PMC \o <<"1">>
    /\ conv.out.pmid = resolved.out.pmid
    /\ conv.out.doi = resolved.out.doi

\* C6: for every supported id_type, a response whose record has no pmcid makes
\* convert_document_id raise the cannot-convert error, whichever of pmid and
\* doi the record carries; every triple returned has a non-empty pmc.
C6_NoPmcidFails ==
    /\ (conv.asked /\ conv.resp.found /\ "pmcid" \notin DOMAIN conv.resp.attrib)
          => conv.out.exc = "ValueError: cannot convert"
    /\ (conv.asked /\ conv.out.exc = "") => conv.out.pmc # <<>>

C6_Witness ==
    /\ conv.asked
    /\ conv.id_type = "PMID"
    /\ DOMAIN conv.resp.attrib = {"pmid", "doi"}
    /\ conv.out.exc = "ValueError: cannot convert"

\* C8: when parse_outgoing_citation_web accepts the id_type, it returns None
\* exactly when the response lists no linked id, and otherwise a result whose
\* n_citations is the number of ids in pmid_cited, at least 1, pmid_cited
\* being the linked ids of the response in order.
C8_NoneIffNoLinks ==
    (og.called /\ og.out.exc = "") =>
        /\ og.out.none <=> og.links = <<>>
        /\ ~og.out.none =>
              /\ og.out.dict_out.pmid_cited = og.links
              /\ og.out.dict_out.n_citations = Len(og.out.dict_out.pmid_cited)
              /\ og.out.dict_out.n_citations >= 1

C8_Witness ==
    og.called /\ og.request.db = "pmc" /\ og.links = <<>> /\ og.out.none

\* C3: parse_xml_tree always returns a record of the six fields (to which
\* parse_xml_web adds pmid and xml), and for every field f whose extraction
\* fails, f is empty and each other field g has the value it has for any
\* tree that differs only in what the query of f finds, in particular one
\* where the extraction of f succeeds.
C3_FieldsIsolated ==
    xml.called =>
        /\ xml.fn = "parse_xml_tree" => DOMAIN xml.dict_out = Fields
        /\ Fields \subseteq DOMAIN xml.dict_out
        /\ \A f \in Fields :
              /\ Extract(f, xml.tree).exc # "" => xml.dict_out[f] = <<>>
              /\ \A p \in Parts(f), g \in Fields \ {f} :
                    xml.dict_out[g]
                      = OrEmpty(Extract(g, [xml.tree EXCEPT ![f] = p]))

C3_Witness ==
    /\ xml.called
    /\ xml.fn = "parse_xml_tree"
    /\ xml.tree.valid
    /\ xml.tree.abstract = <<>>
    /\ xml.dict_out["abstract"] = <<>>
    /\ xml.dict_out["title"] = <<"T", "i", " ", "t", "l">>
    /\ xml.dict_out["authors"] = <<"A", "l", " ", "D", "o">>

WellFormed(a) == a.forename.kind = "text" /\ a.lastname.kind = "text"

\* C4: the authors string holds "forename lastname" of every well-formed
\* author, in document order, joined by "; ", and leaves out only the
\* authors that lack a forename or a lastname.
C4_BadAuthorOmitted ==
    (xml.called /\ xml.tree.valid) =>
        LET good == SelectIdx(xml.tree.authors,
                              {i \in 1..Len(xml.tree.authors) :
                                  WellFormed(xml.tree.authors[i])}, 1)
        IN  xml.dict_out["authors"]
              = Join(<<";", " ">>, [i \in 1..Len(good) |-> FullName(good[i])])
====
